---- MODULE Spec2Model ----
(***************************************************************************)
(* Model of protoc-gen-doc (src/src/main.cpp): the documentation generator  *)
(* plugin.  The host (protoc's PluginMain) calls DocGenerator::Generate     *)
(* once per parsed file; every call builds a file record (addFile) into the *)
(* process-wide generatorContext, the first call parses the plugin          *)
(* parameter and the last call renders.                                     *)
(*                                                                          *)
(* A QString is a sequence of one-character strings, so that startsWith,    *)
(* mid, trimmed, split and operator< are computed the way Qt computes them. *)
(***************************************************************************)
EXTENDS Integers, Sequences, FiniteSets, TLC

VARIABLES
    parsedFiles,       \* context->ListParsedFiles(): the file descriptors of the run
    calls,             \* number of Generate invocations made so far
    parameter,         \* the parameter string passed to the latest invocation
    generatorContext,  \* static DocGeneratorContext: template_, outputFileName, noExclude, files
    error,             \* *error as left by the latest invocation ("" = empty)
    returned,          \* the return values of the invocations, in order
    builds,            \* invocation numbers in which addFile was called
    renders,           \* one entry per call of render(): invocation number and the files it saw
    outputs,           \* one entry per context->Open()/PrintRaw: invocation number, name, payload
    hung               \* TRUE once an invocation entered a loop it never leaves

vars == <<parsedFiles, calls, parameter, generatorContext, error, returned,
          builds, renders, outputs, hung>>

----------------------------------------------------------------------------
(* Bounds of the model. *)

\* Largest number of files in a run (Spec).
MaxFiles == 3
\* Largest number of declarations (messages, enums, values, fields,
\* extensions, services, methods) in one file (SpecBuild).
MaxDecls == 3
\* Largest number of comma-separated tokens in a parameter string (SpecParse).
MaxTokens == 4
MaxLines == 3
MaxChars == 2

----------------------------------------------------------------------------
(* QString operations. *)

Min(a, b) == IF a < b THEN a ELSE b

\* QString::startsWith
startsWith(s, p) == Len(s) >= Len(p) /\ SubSeq(s, 1, Len(p)) = p

\* QString::mid(pos): the characters from 0-based position pos to the end.
mid(s, pos) == IF pos >= Len(s) THEN <<>> ELSE SubSeq(s, pos + 1, Len(s))

\* QString::mid(pos, n): at most n characters from position pos.
midN(s, pos, n) ==
    IF pos >= Len(s) \/ n <= 0 THEN <<>>
    ELSE SubSeq(s, pos + 1, Min(pos + n, Len(s)))

\* QString::left(n): the whole string if n < 0 or n >= size().
left(s, n) == IF n < 0 \/ n >= Len(s) THEN s ELSE SubSeq(s, 1, n)

\* QChar::isSpace for the characters that occur in the inputs.
isSpace(c) == c \in {" ", "\t", "\n", "\r"}

\* QString::trimmed: whitespace removed from both ends.
RECURSIVE trimmed(_)
trimmed(s) ==
    IF s = <<>> THEN s
    ELSE IF isSpace(s[1]) THEN trimmed(Tail(s))
    ELSE IF isSpace(s[Len(s)]) THEN trimmed(SubSeq(s, 1, Len(s) - 1))
    ELSE s

\* QString::indexOf(p): 0-based position of the first occurrence, or -1.
RECURSIVE indexOfFrom(_, _, _)
indexOfFrom(s, p, from) ==
    IF from + Len(p) > Len(s) THEN -1
    ELSE IF SubSeq(s, from + 1, from + Len(p)) = p THEN from
    ELSE indexOfFrom(s, p, from + 1)

indexOf(s, p) == indexOfFrom(s, p, 0)

\* QString::replace(QRegularExpression("^ ", MultilineOption), ""): one space
\* is removed at the start of the string and after every line feed.
RECURSIVE removeLineStartSpace(_, _)
removeLineStartSpace(s, atLineStart) ==
    IF s = <<>> THEN s
    ELSE IF atLineStart /\ s[1] = " " THEN removeLineStartSpace(Tail(s), FALSE)
    ELSE <<s[1]>> \o removeLineStartSpace(Tail(s), s[1] = "\n")

\* UTF-16 code unit of the characters that occur in names.
Code(c) ==
    CASE c = "." -> 46
      [] c = "/" -> 47
      [] c = "A" -> 65
      [] c = "B" -> 66
      [] c = "C" -> 67
      [] c = "a" -> 97
      [] c = "b" -> 98
      [] c = "c" -> 99
      [] c = "d" -> 100
      [] OTHER -> 0

\* operator<(QString, QString): lexicographic on code units, a proper prefix
\* is smaller.
RECURSIVE QStringLess(_, _)
QStringLess(a, b) ==
    IF b = <<>> THEN FALSE
    ELSE IF a = <<>> THEN TRUE
    ELSE IF Code(a[1]) # Code(b[1]) THEN Code(a[1]) < Code(b[1])
    ELSE QStringLess(Tail(a), Tail(b))

\* QString::split(sep) with the default KeepEmptyParts.
RECURSIVE split(_, _)
split(s, sep) ==
    LET at == indexOf(s, <<sep>>) IN
    IF at = -1 THEN <<s>>
    ELSE <<left(s, at)>> \o split(mid(s, at + 1), sep)

\* QStringList::join(sep)
RECURSIVE join(_, _)
join(list, sep) ==
    IF list = <<>> THEN <<>>
    ELSE IF Len(list) = 1 THEN list[1]
    ELSE list[1] \o <<sep>> \o join(Tail(list), sep)

----------------------------------------------------------------------------
(* Comment Extractor. *)

\* "@exclude"
ExcludeMarker == <<"@", "e", "x", "c", "l", "u", "d", "e">>

\* One of the two comment checks of descriptionOf: a comment is honoured only
\* when it starts with '*' or '/'; that character is dropped and one leading
\* space is removed from every line.
documentationComment(comment) ==
    IF startsWith(comment, <<"*">>) \/ startsWith(comment, <<"/">>)
    THEN removeLineStartSpace(mid(comment, 1), TRUE)
    ELSE <<>>

\* Mutant of descriptionOf: the marker is only removed from the description
\* of an element that is excluded.
descriptionOfKeepingMarker(sourceLocation, noExclude) ==
    LET description == trimmed(documentationComment(sourceLocation.leading_comments)
                               \o documentationComment(sourceLocation.trailing_comments))
    IN  IF startsWith(description, ExcludeMarker) /\ ~noExclude
        THEN [description |-> mid(description, 8), excluded |-> TRUE]
        ELSE [description |-> description, excluded |-> FALSE]

\* descriptionOf(const T *descriptor, bool &excluded) for a message, enum,
\* enum value, field, extension, service or method.  sourceLocation holds the
\* leading and trailing comments the compiler attached to the element.
descriptionOf(sourceLocation, noExclude) ==
    LET description == trimmed(documentationComment(sourceLocation.leading_comments)
                               \o documentationComment(sourceLocation.trailing_comments))
    IN  IF startsWith(description, ExcludeMarker)
        THEN [description |-> mid(description, 8), excluded |-> ~noExclude]
        ELSE [description |-> description, excluded |-> FALSE]

\* The inner loop of the "///" branch: i lines have been read, line is the
\* latest one (trimmed).  The loop stops at the end of the stream without
\* adding the line it holds.
RECURSIVE scanLineComments(_, _, _, _)
scanLineComments(lines, i, line, description) ==
    IF i < Len(lines) /\ startsWith(line, <<"/", "/", "/">>)
    THEN scanLineComments(lines, i + 1, trimmed(lines[i + 1]),
             description
             \o mid(line, IF startsWith(line, <<"/", "/", "/", " ">>) THEN 4 ELSE 3)
             \o <<"\n">>)
    ELSE left(description, Len(description) - 1)

\* The "/**" branch.  readLine() at the end of the stream returns a null
\* string, in which "*/" is never found: the while loop then never ends.
RECURSIVE scanBlockComment(_, _, _, _)
scanBlockComment(lines, i, line, description) ==
    LET end == indexOf(line, <<"*", "/">>) IN
    IF end = -1
    THEN IF i >= Len(lines)
         THEN [diverges |-> TRUE, description |-> <<>>]
         ELSE LET start == (IF startsWith(line, <<"*">>) THEN 1 ELSE 0)
                           + (IF startsWith(line, <<"*", " ">>) THEN 1 ELSE 0)
              IN  scanBlockComment(lines, i + 1, trimmed(lines[i + 1]),
                                   description \o mid(line, start) \o <<"\n">>)
    ELSE LET start == (IF startsWith(line, <<"*">>) /\ ~startsWith(line, <<"*", "/">>)
                       THEN 1 ELSE 0)
                      + (IF startsWith(line, <<"*", " ">>) THEN 1 ELSE 0)
         IN  [diverges |-> FALSE,
              description |-> description \o midN(line, start, end - start)]

\* The outer while loop over the lines of the schema file: blank lines are
\* skipped, the first non-blank line decides.
RECURSIVE scanFileComment(_, _)
scanFileComment(lines, i) ==
    IF i >= Len(lines) THEN [diverges |-> FALSE, description |-> <<>>]
    ELSE LET line == trimmed(lines[i + 1]) IN
         IF line = <<>> THEN scanFileComment(lines, i + 1)
         ELSE IF startsWith(line, <<"/", "/", "/">>)
         THEN [diverges |-> FALSE,
               description |-> scanLineComments(lines, i + 1, line, <<>>)]
         ELSE IF startsWith(line, <<"/", "*", "*">>)
                 /\ ~startsWith(line, <<"/", "*", "*", "*", "/">>)
         THEN scanBlockComment(lines, i + 1, mid(line, 2), <<>>)
         ELSE [diverges |-> FALSE, description |-> <<>>]

\* descriptionOf(const gp::FileDescriptor *, std::string *error, bool &excluded).
\* When the file cannot be opened the error is set and an empty description is
\* returned before excluded is assigned, so the caller keeps its own value
\* (false).  error = "" stands for "not written".
descriptionOfFile(fileDescriptor, noExclude) ==
    IF ~fileDescriptor.readable
    THEN [error |-> "schema file cannot be opened", diverges |-> FALSE,
          description |-> <<>>, excluded |-> FALSE]
    ELSE LET scan == scanFileComment(fileDescriptor.lines, 0)
             description == trimmed(scan.description)
         IN  IF scan.diverges
             THEN [error |-> "", diverges |-> TRUE, description |-> <<>>,
                   excluded |-> FALSE]
             ELSE IF startsWith(description, ExcludeMarker)
             THEN [error |-> "", diverges |-> FALSE,
                   description |-> mid(description, 8), excluded |-> ~noExclude]
             ELSE [error |-> "", diverges |-> FALSE,
                   description |-> description, excluded |-> FALSE]

----------------------------------------------------------------------------
(* Descriptors.  A file descriptor holds its elements in flat lists, in     *)
(* declaration order; an element names its enclosing element by position    *)
(* (0 = none, the descriptor API's NULL):                                   *)
(*   messages[i]   = [name, containing_type, location]                      *)
(*   enums[i]      = [name, containing_type, location]                      *)
(*   values[i]     = [name, type, location]          type: position of enum *)
(*   fields[i]     = [name, containing_type, location, default]             *)
(*   extensions[i] = [name, extension_scope, containing_type, location,     *)
(*                    default]                                              *)
(*   services[i]   = [name, location]                                       *)
(*   methods[i]    = [name, service, location]                              *)
(* location = [leading_comments, trailing_comments] (gp::SourceLocation).   *)
(* name, readable and lines are the file's path, whether QFile::open        *)
(* succeeds on it, and its text lines.                                      *)

\* The positions of the elements of list whose entry under key is owner, in
\* order: the descriptor API's xxx_count() / xxx(i) accessors of one scope.
positions(list, key, owner) ==
    SelectSeq([i \in 1..Len(list) |-> i], LAMBDA i : list[i][key] = owner)

----------------------------------------------------------------------------
(* Naming Resolver. *)

\* longName<T>(const T *descriptor), T = gp::Descriptor: m is a position in
\* fileDescriptor.messages, 0 for a null pointer.
RECURSIVE longName(_, _)
longName(fileDescriptor, m) ==
    IF m = 0 THEN <<>>
    ELSE IF fileDescriptor.messages[m].containing_type = 0
    THEN fileDescriptor.messages[m].name
    ELSE longName(fileDescriptor, fileDescriptor.messages[m].containing_type)
         \o <<".">> \o fileDescriptor.messages[m].name

\* longName<T>, T = gp::EnumDescriptor: the non-null case of the template,
\* the recursion continues in T = gp::Descriptor.
longNameEnum(fileDescriptor, enumDescriptor) ==
    IF enumDescriptor.containing_type = 0
    THEN enumDescriptor.name
    ELSE longName(fileDescriptor, enumDescriptor.containing_type)
         \o <<".">> \o enumDescriptor.name

\* Mutant of longNameField: the extension is named under the message it
\* extends.
longNameFieldByContainingType(fileDescriptor, fieldDescriptor) ==
    longName(fileDescriptor, fieldDescriptor.containing_type)
    \o <<".">> \o fieldDescriptor.name

\* The specialization for gp::FieldDescriptor, called on extensions only
\* (is_extension() is true): it follows extension_scope().
longNameField(fileDescriptor, fieldDescriptor) ==
    longName(fileDescriptor, fieldDescriptor.extension_scope)
    \o <<".">> \o fieldDescriptor.name

----------------------------------------------------------------------------
(* Document Model Builder. *)

\* QVariantHash::operator[] followed by toString(): a missing key reads as
\* the empty string.
hashString(v, key) == IF key \in DOMAIN v THEN v[key] ELSE <<>>

\* Mutant of longNameLessThan: the short names are compared.
nameLessThan(v1, v2) ==
    IF QStringLess(hashString(v1, "message_name"), hashString(v2, "message_name"))
    THEN TRUE
    ELSE IF QStringLess(hashString(v1, "enum_name"), hashString(v2, "enum_name"))
    THEN TRUE
    ELSE QStringLess(hashString(v1, "extension_name"), hashString(v2, "extension_name"))

\* longNameLessThan(v1, v2): a record lacks the keys of the other kinds.
longNameLessThan(v1, v2) ==
    IF QStringLess(hashString(v1, "message_long_name"), hashString(v2, "message_long_name"))
    THEN TRUE
    ELSE IF QStringLess(hashString(v1, "enum_long_name"), hashString(v2, "enum_long_name"))
    THEN TRUE
    ELSE QStringLess(hashString(v1, "extension_long_name"),
                     hashString(v2, "extension_long_name"))

\* std::sort(list.begin(), list.end(), &longNameLessThan): the results the
\* standard allows, every permutation of the list in which no element is
\* longNameLessThan an earlier one (std::sort is not stable, so elements the
\* comparator does not order may end in any order).
stdSort(list) ==
    LET n == Len(list)
        perms == {p \in [1..n -> 1..n] : \A i, j \in 1..n : i # j => p[i] # p[j]}
    IN  {r \in {[i \in 1..n |-> list[p[i]]] : p \in perms} :
            \A i, j \in 1..n : i < j => ~longNameLessThan(r[j], r[i])}

\* QString::number(n) for an integer: the decimal digits, with a sign.
RECURSIVE digitsOf(_)
digitsOf(n) ==
    LET d == <<"0", "1", "2", "3", "4", "5", "6", "7", "8", "9">>[(n % 10) + 1] IN
    IF n < 10 THEN <<d>> ELSE digitsOf(n \div 10) \o <<d>>

numberOfInteger(n) == IF n < 0 THEN <<"-">> \o digitsOf(-n) ELSE digitsOf(n)

\* The string without its trailing "0" characters.
RECURSIVE withoutTrailingZeros(_)
withoutTrailingZeros(s) ==
    IF s # <<>> /\ s[Len(s)] = "0" THEN withoutTrailingZeros(SubSeq(s, 1, Len(s) - 1))
    ELSE s

\* QString::number(double n, char format = 'g', int precision = 6) for a
\* whole number n: at most 6 significant digits, the exponent form from 10^6
\* on, trailing zeros of the mantissa removed.  (The values of the model are
\* never half-way between two 6-digit mantissas.)
numberOfDouble(n) ==
    LET a == IF n < 0 THEN -n ELSE n
        sign == IF n < 0 THEN <<"-">> ELSE <<>>
        e == Len(digitsOf(a)) - 1
        unit == 10 ^ (e - 5)
        rounded == (a + unit \div 2) \div unit
        carried == rounded >= 1000000
        exponent == IF carried THEN e + 1 ELSE e
        mantissa == withoutTrailingZeros(digitsOf(IF carried THEN 100000 ELSE rounded))
    IN  IF e < 6 THEN sign \o digitsOf(a)
        ELSE sign \o <<mantissa[1]>>
             \o (IF Len(mantissa) > 1 THEN <<".">> \o Tail(mantissa) ELSE <<>>)
             \o <<"e", "+">>
             \o (IF exponent < 10 THEN <<"0">> ELSE <<>>) \o digitsOf(exponent)

\* QByteArray(const char *): the bytes up to, not including, the first zero
\* byte.
RECURSIVE fromCString(_)
fromCString(bytes) ==
    IF bytes = <<>> \/ bytes[1] = 0 THEN <<>>
    ELSE <<bytes[1]>> \o fromCString(Tail(bytes))

\* QByteArray::toHex(): two lower-case hexadecimal digits per byte.
RECURSIVE toHex(_)
toHex(bytes) ==
    LET hex == <<"0", "1", "2", "3", "4", "5", "6", "7",
                 "8", "9", "a", "b", "c", "d", "e", "f">>
    IN  IF bytes = <<>> THEN <<>>
        ELSE <<hex[(bytes[1] \div 16) + 1], hex[(bytes[1] % 16) + 1]>> \o toHex(Tail(bytes))

\* defaultValue(fieldDescriptor).  fieldDescriptor.default holds
\* has_default_value(), cpp_type(), type() and the default_value_xxx() of the
\* field; a string default is a list of characters, a bytes default a list of
\* byte values.
defaultValue(fieldDescriptor) ==
    LET default == fieldDescriptor.default IN
    IF ~default.has_default_value THEN <<>>
    ELSE CASE default.cpp_type = "CPPTYPE_STRING" ->
                (IF default.type = "TYPE_STRING"
                 THEN <<"\"">> \o default.value \o <<"\"">>
                 ELSE IF default.type = "TYPE_BYTES"
                 THEN <<"0", "x">> \o toHex(fromCString(default.value))
                 ELSE <<"U", "n", "k", "n", "o", "w", "n">>)
           [] default.cpp_type = "CPPTYPE_BOOL" ->
                (IF default.value THEN <<"t", "r", "u", "e">>
                 ELSE <<"f", "a", "l", "s", "e">>)
           [] default.cpp_type \in {"CPPTYPE_FLOAT", "CPPTYPE_DOUBLE"} ->
                numberOfDouble(default.value)
           [] default.cpp_type \in {"CPPTYPE_INT32", "CPPTYPE_INT64",
                                    "CPPTYPE_UINT32", "CPPTYPE_UINT64"} ->
                numberOfInteger(default.value)
           [] default.cpp_type = "CPPTYPE_ENUM" -> default.value
           [] OTHER -> <<"U", "n", "k", "n", "o", "w", "n">>

\* addField: the list of records it appends (none when excluded).  The label
\* and type entries are not part of this model.
addField(fieldDescriptor, noExclude) ==
    LET d == descriptionOf(fieldDescriptor.location, noExclude) IN
    IF d.excluded THEN <<>>
    ELSE << [field_name |-> fieldDescriptor.name,
             field_description |-> d.description,
             field_default_value |-> defaultValue(fieldDescriptor)] >>

\* addExtension: the list of records it appends.
addExtension(fileDescriptor, fieldDescriptor, noExclude) ==
    LET d == descriptionOf(fieldDescriptor.location, noExclude)
        basic == [extension_name |-> fieldDescriptor.name,
                  extension_long_name |-> longNameField(fileDescriptor, fieldDescriptor),
                  extension_description |-> d.description,
                  extension_default_value |-> defaultValue(fieldDescriptor)]
        scope == IF fieldDescriptor.extension_scope # 0
                 THEN [extension_scope_type |->
                           fileDescriptor.messages[fieldDescriptor.extension_scope].name,
                       extension_scope_long_type |->
                           longName(fileDescriptor, fieldDescriptor.extension_scope)]
                 ELSE <<>>
        containing == IF fieldDescriptor.containing_type # 0
                 THEN [extension_containing_type |->
                           fileDescriptor.messages[fieldDescriptor.containing_type].name,
                       extension_containing_long_type |->
                           longName(fileDescriptor, fieldDescriptor.containing_type)]
                 ELSE <<>>
    IN  IF d.excluded THEN <<>>
        ELSE << basic @@ scope @@ containing >>

\* The loop over enumDescriptor->value(i) in addEnum.
RECURSIVE addValues(_, _, _)
addValues(fileDescriptor, vs, noExclude) ==
    IF vs = <<>> THEN <<>>
    ELSE LET valueDescriptor == fileDescriptor.values[Head(vs)]
             d == descriptionOf(valueDescriptor.location, noExclude)
         IN  (IF d.excluded THEN <<>>
              ELSE << [value_name |-> valueDescriptor.name,
                       value_description |-> d.description] >>)
             \o addValues(fileDescriptor, Tail(vs), noExclude)

\* addEnum: the list of records it appends; e is a position in enums.
addEnum(fileDescriptor, e, noExclude) ==
    LET enumDescriptor == fileDescriptor.enums[e]
        d == descriptionOf(enumDescriptor.location, noExclude)
    IN  IF d.excluded THEN <<>>
        ELSE << [enum_name |-> enumDescriptor.name,
                 enum_long_name |-> longNameEnum(fileDescriptor, enumDescriptor),
                 enum_description |-> d.description,
                 enum_values |->
                     addValues(fileDescriptor,
                               positions(fileDescriptor.values, "type", e),
                               noExclude)] >>

\* The concatenation of a list of lists: what the calls of an add function in
\* a "for (i = 0; i < count; ++i) add...(...)" loop append, one after the
\* other.
RECURSIVE concat(_)
concat(lists) ==
    IF lists = <<>> THEN <<>> ELSE Head(lists) \o concat(Tail(lists))

\* Mutant of addFields: the fields of the message are sorted by name.
addFieldsSortedByName(fileDescriptor, m, noExclude) ==
    LET ps == positions(fileDescriptor.fields, "containing_type", m)
        list == concat([i \in 1..Len(ps) |->
                           addField(fileDescriptor.fields[ps[i]], noExclude)])
        n == Len(list)
        perms == {p \in [1..n -> 1..n] : \A i, j \in 1..n : i # j => p[i] # p[j]}
    IN  CHOOSE r \in {[i \in 1..n |-> list[p[i]]] : p \in perms} :
            \A i, j \in 1..n :
                i < j => ~QStringLess(r[j].field_name, r[i].field_name)

\* The loop over descriptor->field(i) of message m.
addFields(fileDescriptor, m, noExclude) ==
    LET ps == positions(fileDescriptor.fields, "containing_type", m) IN
    concat([i \in 1..Len(ps) |-> addField(fileDescriptor.fields[ps[i]], noExclude)])

\* The loop over the extensions declared in message m, or at file level
\* (m = 0): descriptor->extension(i), fileDescriptor->extension(i).
addExtensions(fileDescriptor, m, noExclude) ==
    LET ps == positions(fileDescriptor.extensions, "extension_scope", m) IN
    concat([i \in 1..Len(ps) |->
               addExtension(fileDescriptor, fileDescriptor.extensions[ps[i]], noExclude)])

\* Mutant of addEnums: only the enums declared at file level are added.
addEnumsOfFileOnly(fileDescriptor, m, noExclude) ==
    LET ps == positions(fileDescriptor.enums, "containing_type", m) IN
    IF m # 0 THEN <<>>
    ELSE concat([i \in 1..Len(ps) |-> addEnum(fileDescriptor, ps[i], noExclude)])

\* The loop over the enums declared in message m, or at file level (m = 0):
\* descriptor->enum_type(i), fileDescriptor->enum_type(i).
addEnums(fileDescriptor, m, noExclude) ==
    LET ps == positions(fileDescriptor.enums, "containing_type", m) IN
    concat([i \in 1..Len(ps) |-> addEnum(fileDescriptor, ps[i], noExclude)])

\* The record addMessages builds for message m: its basic info, its fields
\* and the extensions declared in it, both in declaration order.
messageRecord(fileDescriptor, m, description, noExclude) ==
    LET fields == addFields(fileDescriptor, m, noExclude)
        extensions == addExtensions(fileDescriptor, m, noExclude)
    IN  [message_name |-> fileDescriptor.messages[m].name,
         message_long_name |-> longName(fileDescriptor, m),
         message_description |-> description,
         message_fields |-> fields,
         message_has_fields |-> fields # <<>>,
         message_has_extensions |-> extensions # <<>>,
         message_extensions |-> extensions]

\* addMessages: what it appends to *messages and to *enums for message m and
\* everything nested in it.  Nothing at all when m is excluded.
RECURSIVE addMessages(_, _, _)
RECURSIVE addNestedTypes(_, _, _)
addNestedTypes(fileDescriptor, ms, noExclude) ==
    IF ms = <<>> THEN [messages |-> <<>>, enums |-> <<>>]
    ELSE LET first == addMessages(fileDescriptor, Head(ms), noExclude)
             rest == addNestedTypes(fileDescriptor, Tail(ms), noExclude)
         IN  [messages |-> first.messages \o rest.messages,
              enums |-> first.enums \o rest.enums]

\* Mutant of addMessages: an excluded message only loses its own record, the
\* messages and enums nested in it are still added.
addMessagesKeepingNested(fileDescriptor, m, noExclude) ==
    LET d == descriptionOf(fileDescriptor.messages[m].location, noExclude)
        nested == addNestedTypes(fileDescriptor,
            positions(fileDescriptor.messages, "containing_type", m),
            noExclude)
        ownEnums == addEnums(fileDescriptor, m, noExclude)
    IN  [messages |-> (IF d.excluded THEN <<>>
                       ELSE <<messageRecord(fileDescriptor, m, d.description, noExclude)>>)
                      \o nested.messages,
         enums |-> nested.enums \o ownEnums]

addMessages(fileDescriptor, m, noExclude) ==
    LET d == descriptionOf(fileDescriptor.messages[m].location, noExclude)
        nested == addNestedTypes(fileDescriptor,
            positions(fileDescriptor.messages, "containing_type", m),
            noExclude)
        ownEnums == addEnums(fileDescriptor, m, noExclude)
    IN  IF d.excluded THEN [messages |-> <<>>, enums |-> <<>>]
        ELSE [messages |-> <<messageRecord(fileDescriptor, m, d.description, noExclude)>>
                           \o nested.messages,
              enums |-> nested.enums \o ownEnums]

\* The loop over serviceDescriptor->method(i) in addService.
RECURSIVE addMethods(_, _, _)
addMethods(fileDescriptor, ms, noExclude) ==
    IF ms = <<>> THEN <<>>
    ELSE LET methodDescriptor == fileDescriptor.methods[Head(ms)]
             d == descriptionOf(methodDescriptor.location, noExclude)
         IN  (IF d.excluded THEN <<>>
              ELSE << [method_name |-> methodDescriptor.name,
                       method_description |-> d.description] >>)
             \o addMethods(fileDescriptor, Tail(ms), noExclude)

\* addService: the list of records it appends; s is a position in services.
addService(fileDescriptor, s, noExclude) ==
    LET serviceDescriptor == fileDescriptor.services[s]
        d == descriptionOf(serviceDescriptor.location, noExclude)
    IN  IF d.excluded THEN <<>>
        ELSE << [service_name |-> serviceDescriptor.name,
                 service_description |-> d.description,
                 service_methods |->
                     addMethods(fileDescriptor,
                                positions(fileDescriptor.methods, "service", s),
                                noExclude)] >>

\* QFileInfo(path).fileName(): the part after the last '/'.
RECURSIVE fileName(_)
fileName(path) ==
    LET at == indexOf(path, <<"/">>) IN
    IF at = -1 THEN path ELSE fileName(mid(path, at + 1))

\* The file records addFile may build for a file that is not excluded, one
\* per result std::sort may give.
fileRecords(fileDescriptor, description, noExclude) ==
    LET top == addNestedTypes(fileDescriptor,
                   positions(fileDescriptor.messages, "containing_type", 0),
                   noExclude)
        enums == top.enums \o addEnums(fileDescriptor, 0, noExclude)
        services == concat([i \in 1..Len(fileDescriptor.services) |->
                               addService(fileDescriptor, i, noExclude)])
        extensions == addExtensions(fileDescriptor, 0, noExclude)
    IN  {[file_name |-> fileName(fileDescriptor.name),
          file_description |-> description,
          file_messages |-> sm,
          file_enums |-> se,
          file_has_services |-> ss # <<>>,
          file_services |-> ss,
          file_has_extensions |-> sx # <<>>,
          file_extensions |-> sx] :
            sm \in stdSort(top.messages), se \in stdSort(enums),
            ss \in stdSort(services), sx \in stdSort(extensions)}

\* Mutant of addFile: the record of an excluded file is appended like any
\* other.
addFileKeepingExcluded(fileDescriptor, files, noExclude) ==
    LET d == descriptionOfFile(fileDescriptor, noExclude) IN
    IF d.diverges
    THEN {[error |-> "", diverges |-> TRUE, files |-> files]}
    ELSE {[error |-> d.error, diverges |-> FALSE, files |-> Append(files, r)] :
             r \in fileRecords(fileDescriptor, d.description, noExclude)}

\* addFile(fileDescriptor, files, error): the set of outcomes
\* [error, diverges, files].  error = "" means *error was not written.  A
\* failed open leaves excluded false, so the function goes on and appends a
\* record.
addFile(fileDescriptor, files, noExclude) ==
    LET d == descriptionOfFile(fileDescriptor, noExclude) IN
    IF d.diverges
    THEN {[error |-> "", diverges |-> TRUE, files |-> files]}
    ELSE IF d.excluded
    THEN {[error |-> d.error, diverges |-> FALSE, files |-> files]}
    ELSE {[error |-> d.error, diverges |-> FALSE, files |-> Append(files, r)] :
             r \in fileRecords(fileDescriptor, d.description, noExclude)}

----------------------------------------------------------------------------
(* Configuration and Renderer. *)

Json == <<"j", "s", "o", "n">>
Html == <<"h", "t", "m", "l">>
NoExcludeToken == <<"n", "o", "-", "e", "x", "c", "l", "u", "d", "e">>

\* supportedFormats(): the base names of the built-in ":/templates/*.mustache".
supportedFormats == {Html}

\* The template files of the run's file system that QFile::open can read,
\* with their contents: "t" holds a template, "e" is an empty file.
templateFiles == (<<"t">> :> <<"{", "{", "f", "}", "}">>) @@ (<<"e">> :> <<>>)

\* readTemplate(name, error): [error, template]; error = "" means *error was
\* not written.
readTemplate(name) ==
    IF name \in supportedFormats
    THEN [error |-> "", template |-> <<"<">> \o name \o <<">">>]
    ELSE IF name \in DOMAIN templateFiles
    THEN [error |-> "", template |-> templateFiles[name]]
    ELSE [error |-> "template cannot be read", template |-> <<>>]

\* Mutant of parseParameter: a third token is taken for the override whatever
\* it is.
parseParameterAnyThirdToken(param, context) ==
    LET tokens == split(param, ",")
        read == IF tokens[1] # Json THEN readTemplate(tokens[1])
                ELSE [error |-> "", template |-> context.template_]
    IN  IF Len(tokens) # 2 /\ Len(tokens) # 3
        THEN [ok |-> FALSE, error |-> "usage", context |-> context]
        ELSE [ok |-> TRUE, error |-> read.error,
              context |-> [context EXCEPT !.template_ = read.template,
                                          !.outputFileName = tokens[2],
                                          !.noExclude = (Len(tokens) = 3)]]

\* Mutant of parseParameter: the output file name is stored before the third
\* token is validated.
parseParameterStoringFirst(param, context) ==
    LET tokens == split(param, ",")
        stored == [context EXCEPT !.outputFileName = tokens[2]]
        read == IF tokens[1] # Json THEN readTemplate(tokens[1])
                ELSE [error |-> "", template |-> context.template_]
    IN  IF Len(tokens) # 2 /\ Len(tokens) # 3
        THEN [ok |-> FALSE, error |-> "usage", context |-> context]
        ELSE IF Len(tokens) = 3 /\ tokens[3] # NoExcludeToken
        THEN [ok |-> FALSE, error |-> "usage", context |-> stored]
        ELSE [ok |-> TRUE, error |-> read.error,
              context |-> [stored EXCEPT !.template_ = read.template,
                                         !.noExclude = (Len(tokens) = 3)]]

\* parseParameter(parameter, error): [ok, error, context], context being the
\* generatorContext it leaves.  A template that cannot be read sets the error
\* but parseParameter still returns true.
parseParameter(param, context) ==
    LET tokens == split(param, ",")
        rejected == [ok |-> FALSE, error |-> "usage", context |-> context]
        read == IF tokens[1] # Json THEN readTemplate(tokens[1])
                ELSE [error |-> "", template |-> context.template_]
    IN  IF Len(tokens) # 2 /\ Len(tokens) # 3 THEN rejected
        ELSE IF Len(tokens) = 3 /\ tokens[3] # NoExcludeToken THEN rejected
        ELSE [ok |-> TRUE, error |-> read.error,
              context |-> [context EXCEPT !.template_ = read.template,
                                          !.outputFileName = tokens[2],
                                          !.noExclude = (Len(tokens) = 3)]]

\* Mutant of render: the output is opened and written before the template
\* engine's error is looked at.
renderWritingBeforeCheck(context, jsonOk, tableOk, engineOk) ==
    LET artifact(kind) == [name |-> context.outputFileName, kind |-> kind,
                           files |-> context.files]
    IN  IF context.template_ = <<>>
        THEN IF ~jsonOk
             THEN [ok |-> FALSE, error |-> "Failed to create JSON document", written |-> <<>>]
             ELSE [ok |-> TRUE, error |-> "", written |-> <<artifact("json")>>]
        ELSE IF ~tableOk
             THEN [ok |-> FALSE, error |-> "scalar table cannot be opened", written |-> <<>>]
        ELSE IF ~engineOk
             THEN [ok |-> FALSE, error |-> "template error",
                   written |-> <<artifact("template")>>]
        ELSE [ok |-> TRUE, error |-> "", written |-> <<artifact("template")>>]

\* render(context, error): [ok, error, written], written being the list of
\* artifacts handed to context->Open (none, or one).  jsonOk, tableOk and
\* engineOk are what the JSON library, the opening of the scalar-type table
\* and the template engine answer.
render(context, jsonOk, tableOk, engineOk) ==
    LET artifact(kind) == [name |-> context.outputFileName, kind |-> kind,
                           files |-> context.files]
    IN  IF context.template_ = <<>>
        THEN IF ~jsonOk
             THEN [ok |-> FALSE, error |-> "Failed to create JSON document", written |-> <<>>]
             ELSE [ok |-> TRUE, error |-> "", written |-> <<artifact("json")>>]
        ELSE IF ~tableOk
             THEN [ok |-> FALSE, error |-> "scalar table cannot be opened", written |-> <<>>]
        ELSE IF ~engineOk
             THEN [ok |-> FALSE, error |-> "template error", written |-> <<>>]
        ELSE [ok |-> TRUE, error |-> "", written |-> <<artifact("template")>>]

----------------------------------------------------------------------------
(* Aggregation Driver. *)

\* The host (PluginMain, called by main()): it calls Generate once per parsed
\* file, in list order, and stops at the first call that returns false.  A
\* call that never returns leaves nothing to call.
hostCalls ==
    /\ ~hung
    /\ calls < Len(parsedFiles)
    /\ \A i \in 1..Len(returned) : returned[i]

\* Mutant of isFirst: every file is taken for the first, so the parameter is
\* parsed by every invocation.
isFirstOnEveryCall(fileDescriptor, files) == TRUE

\* fileDescriptor == parsedFiles.front(): descriptors are compared by
\* identity, and the files of a run are distinct.
isFirst(fileDescriptor, files) == fileDescriptor = files[1]

\* Mutant of isLast: the first file is taken for the last.
isLastTakingFront(fileDescriptor, files) == fileDescriptor = files[1]

\* fileDescriptor == parsedFiles.back()
isLast(fileDescriptor, files) == fileDescriptor = files[Len(files)]

\* DocGenerator::Generate for the next file of the run; error is empty on
\* entry.
Generate(param) ==
    /\ hostCalls
    /\ LET fileDescriptor == parsedFiles[calls + 1]
           first == isFirst(fileDescriptor, parsedFiles)
           last == isLast(fileDescriptor, parsedFiles)
           parsed == IF first THEN parseParameter(param, generatorContext)
                     ELSE [ok |-> TRUE, error |-> "", context |-> generatorContext]
       IN  /\ calls' = calls + 1
           /\ parameter' = param
           /\ UNCHANGED parsedFiles
           /\ IF ~parsed.ok
              THEN /\ generatorContext' = parsed.context
                   /\ error' = parsed.error
                   /\ returned' = Append(returned, FALSE)
                   /\ UNCHANGED <<builds, renders, outputs, hung>>
              ELSE \E built \in addFile(fileDescriptor, parsed.context.files,
                                        parsed.context.noExclude) :
                   LET context == [parsed.context EXCEPT !.files = built.files]
                       failure == IF built.error # "" THEN built.error ELSE parsed.error
                   IN  /\ generatorContext' = context
                       /\ builds' = Append(builds, calls + 1)
                       /\ IF built.diverges
                          THEN /\ hung' = TRUE
                               /\ error' = parsed.error
                               /\ UNCHANGED <<returned, renders, outputs>>
                          ELSE IF failure # ""
                          THEN /\ error' = failure
                               /\ returned' = Append(returned, FALSE)
                               /\ UNCHANGED <<renders, outputs, hung>>
                          ELSE IF last
                          THEN \E jsonOk, tableOk, engineOk \in BOOLEAN :
                               LET r == render(context, jsonOk, tableOk, engineOk) IN
                               /\ renders' = Append(renders,
                                      [call |-> calls + 1, files |-> context.files])
                               /\ outputs' = outputs \o
                                      [i \in 1..Len(r.written) |->
                                          [call |-> calls + 1, artifact |-> r.written[i]]]
                               /\ error' = r.error
                               /\ returned' = Append(returned, r.ok)
                               /\ UNCHANGED hung
                          ELSE /\ error' = ""
                               /\ returned' = Append(returned, TRUE)
                               /\ UNCHANGED <<renders, outputs, hung>>

----------------------------------------------------------------------------
(* Inputs: the descriptors, files and parameter strings the runs draw from. *)

\* Source locations: no comment; a documentation comment ("/// d"); a
\* documentation comment carrying the marker ("/// @exclude d"); an ordinary
\* comment carrying the marker ("// @exclude"), which is no documentation.
NoComment == [leading_comments |-> <<>>, trailing_comments |-> <<>>]
DocComment == [leading_comments |-> <<"/", " ", "d", "\n">>, trailing_comments |-> <<>>]
ExcludeComment ==
    [leading_comments |-> <<"/", " ">> \o ExcludeMarker \o <<" ", "d", "\n">>,
     trailing_comments |-> <<>>]
PlainComment ==
    [leading_comments |-> <<" ">> \o ExcludeMarker \o <<"\n">>,
     trailing_comments |-> <<>>]

Locations == {NoComment, ExcludeComment}
Names == {<<"A">>, <<"B">>}

\* A field without a default value: has_default_value() is false.
NoDefault ==
    [has_default_value |-> FALSE, cpp_type |-> "CPPTYPE_INT32", type |-> "TYPE_INT32",
     value |-> 0]

\* The defaults a field can declare, by type: none (a message field never has
\* one); a string of at most k characters; a byte string of at most k bytes;
\* a boolean; a number; a constant of an enum.
fieldDefaults(k) ==
    LET of(cpp_type, type, values) ==
            [has_default_value : {TRUE}, cpp_type : {cpp_type}, type : {type},
             value : values]
        whole == {"INT32", "INT64", "UINT32", "UINT64"}
    IN  {[has_default_value |-> FALSE, cpp_type |-> "CPPTYPE_" \o t[1],
          type |-> "TYPE_" \o t[2], value |-> 0] :
            t \in {<<"MESSAGE", "MESSAGE">>, <<"MESSAGE", "GROUP">>,
                   <<"STRING", "STRING">>, <<"STRING", "BYTES">>,
                   <<"INT32", "INT32">>, <<"ENUM", "ENUM">>}}
        \cup of("CPPTYPE_STRING", "TYPE_STRING",
                UNION {[1..n -> {"a", "%", "\""}] : n \in 0..k})
        \cup of("CPPTYPE_STRING", "TYPE_BYTES",
                UNION {[1..n -> {0, 1, 97, 255}] : n \in 0..k})
        \cup of("CPPTYPE_BOOL", "TYPE_BOOL", BOOLEAN)
        \cup UNION {of("CPPTYPE_" \o t, "TYPE_" \o t, {0, 7, 1234567}) : t \in whole}
        \cup UNION {of("CPPTYPE_" \o t, "TYPE_S" \o t, {-12, 0}) : t \in {"INT32", "INT64"}}
        \cup of("CPPTYPE_DOUBLE", "TYPE_DOUBLE", {-12, 0, 123456, 1234567, 1000000})
        \cup of("CPPTYPE_FLOAT", "TYPE_FLOAT", {0, 7, 16777216})
        \cup of("CPPTYPE_ENUM", "TYPE_ENUM", Names)

\* No element of the list has the name of e in the same scope (the entry
\* under key).
freshIn(list, e, key) ==
    \A i \in 1..Len(list) : ~(list[i].name = e.name /\ list[i][key] = e[key])

\* The elements that may follow the list s of the given kind, in a file with
\* the given number of owners (messages, enums or services) to refer to: a
\* message may nest in any earlier message, an enum or an extension may be
\* declared in a message or at file level (0), a value, field or method has
\* an owner.
declarations(kind, s, owners) ==
    CASE kind = "messages" ->
           {e \in [name : Names, containing_type : 0..Len(s), location : Locations] :
               freshIn(s, e, "containing_type")}
      [] kind = "enums" ->
           {e \in [name : Names, containing_type : 0..owners, location : Locations] :
               freshIn(s, e, "containing_type")}
      [] kind = "values" ->
           {e \in [name : Names, type : 1..owners, location : Locations] :
               freshIn(s, e, "type")}
      [] kind = "fields" ->
           {e \in [name : Names, containing_type : 1..owners, location : Locations,
                   default : {NoDefault}] :
               freshIn(s, e, "containing_type")}
      [] kind = "extensions" ->
           {e \in [name : Names, extension_scope : 0..owners,
                   containing_type : 1..owners, location : Locations,
                   default : {NoDefault}] :
               freshIn(s, e, "extension_scope")}
      [] kind = "services" ->
           {e \in [name : Names, location : Locations] : freshIn(s, e, "name")}
      [] kind = "methods" ->
           {e \in [name : Names, service : 1..owners, location : Locations] :
               freshIn(s, e, "service")}

\* The lists of at most k declarations of a kind.
listsUpTo(k, kind, owners) ==
    LET exactly[j \in 0..k] ==
            IF j = 0 THEN {<<>>}
            ELSE UNION {{Append(s, e) : e \in declarations(kind, s, owners)} :
                           s \in exactly[j - 1]}
    IN  UNION {exactly[j] : j \in 0..k}

messageLists(k) == listsUpTo(k, "messages", 0)

enumLists(k, messages) == listsUpTo(k, "enums", Len(messages))

valueLists(k, enums) == listsUpTo(k, "values", Len(enums))

fieldLists(k, messages) == listsUpTo(k, "fields", Len(messages))

extensionLists(k, messages) == listsUpTo(k, "extensions", Len(messages))

serviceLists(k) == listsUpTo(k, "services", 0)

methodLists(k, services) == listsUpTo(k, "methods", Len(services))

\* A file with no declarations.
emptyFile(name, readable, lines) ==
    [name |-> name, readable |-> readable, lines |-> lines,
     messages |-> <<>>, enums |-> <<>>, values |-> <<>>, fields |-> <<>>,
     extensions |-> <<>>, services |-> <<>>, methods |-> <<>>]

\* File texts: no leading comment; a "///" comment with the marker followed
\* by a blank line; a closed "/** */" comment; a "/**" comment never closed.
PlainText == << <<"m">> >>
ExcludedText == << <<"/", "/", "/", " ">> \o ExcludeMarker, <<>>, <<"m">> >>
DocumentedText == << <<"/", "*", "*", " ", "d", " ", "*", "/">>, <<"m">> >>
UnclosedText == << <<"/", "*", "*", " ", "d">>, <<"m">> >>

\* The path of the i-th file of a run: "a", "d/a", "b", then "c", "cc", ...
filePath(i) ==
    CASE i = 1 -> <<"a">>
      [] i = 2 -> <<"d", "/", "a">>
      [] i = 3 -> <<"b">>
      [] OTHER -> [j \in 1..(i - 3) |-> "c"]

\* One message "A" with a field "a", and a service "B".
smallDeclarations(file) ==
    [file EXCEPT !.messages = << [name |-> <<"A">>, containing_type |-> 0,
                                  location |-> DocComment] >>,
                 !.fields = << [name |-> <<"a">>, containing_type |-> 1,
                                location |-> NoComment, default |-> NoDefault] >>,
                 !.services = << [name |-> <<"B">>, location |-> NoComment] >>]

\* The files a run of the whole lifecycle draws its i-th file from.
lifecycleFiles(i) ==
    {emptyFile(filePath(i), FALSE, PlainText)}
    \cup {smallDeclarations(emptyFile(filePath(i), TRUE, t)) :
              t \in {PlainText, ExcludedText, DocumentedText, UnclosedText}}

\* The runs of at most k files.
lifecycleRuns(k) ==
    LET runs[n \in 1..k] ==
            IF n = 1 THEN {<<f>> : f \in lifecycleFiles(1)}
            ELSE {Append(r, f) : r \in runs[n - 1], f \in lifecycleFiles(n)}
    IN  UNION {runs[n] : n \in 1..k}

\* Parameter strings of the lifecycle runs.
lifecycleParameters ==
    {join(ts, ",") : ts \in {<<Json, <<"o">>>>, <<Html, <<"o">>>>,
                             <<Html, <<"p">>, NoExcludeToken>>,
                             <<<<"x">>, <<"o">>>>,
                             <<Json>>, <<Json, <<"o">>, <<"x">>>>}}

emptyContext ==
    [template_ |-> <<>>, outputFileName |-> <<>>, noExclude |-> FALSE, files |-> <<>>]

\* The state before the first invocation: the statics are default-constructed.
Start(files) ==
    /\ parsedFiles = files
    /\ calls = 0
    /\ parameter = <<>>
    /\ generatorContext = emptyContext
    /\ error = ""
    /\ returned = <<>>
    /\ builds = <<>>
    /\ renders = <<>>
    /\ outputs = <<>>
    /\ hung = FALSE

Init == \E files \in lifecycleRuns(MaxFiles) : Start(files)

Next == hostCalls /\ \E param \in lifecycleParameters : Generate(param)

Spec == Init /\ [][Next]_vars

\* Runs of one file holding at most MaxDecls declarations of any kinds, built
\* without rendering through a template (raw JSON output), with and without
\* the exclusion override.
buildParameters ==
    {join(ts, ",") : ts \in {<<Json, <<"o">>>>, <<Json, <<"o">>, NoExcludeToken>>}}

\* The text of a built file: the excluded text is tried on the files of at
\* most one message, enum or service (an excluded file is not looked into).
buildTexts(n) == IF n <= 1 THEN {PlainText, ExcludedText} ELSE {PlainText}

InitBuild ==
    \E messages \in messageLists(MaxDecls) :
    \E enums \in enumLists(MaxDecls - Len(messages), messages) :
    \E values \in valueLists(MaxDecls - Len(messages) - Len(enums), enums) :
    \E fields \in fieldLists(MaxDecls - Len(messages) - Len(enums) - Len(values),
                             messages) :
    \E extensions \in extensionLists(MaxDecls - Len(messages) - Len(enums)
                                     - Len(values) - Len(fields), messages) :
    \E services \in serviceLists(MaxDecls - Len(messages) - Len(enums) - Len(values)
                                 - Len(fields) - Len(extensions)) :
    \E methods \in methodLists(MaxDecls - Len(messages) - Len(enums) - Len(values)
                               - Len(fields) - Len(extensions) - Len(services),
                               services) :
    \E lines \in buildTexts(Len(messages) + Len(enums) + Len(services)) :
        Start(<< [emptyFile(filePath(2), TRUE, lines) EXCEPT
                    !.messages = messages, !.enums = enums, !.values = values,
                    !.fields = fields, !.extensions = extensions,
                    !.services = services, !.methods = methods] >>)

NextBuild == hostCalls /\ \E param \in buildParameters : Generate(param)

SpecBuild == InitBuild /\ [][NextBuild]_vars

\* Runs of one file under every parameter string of at most MaxTokens tokens.
parameterTokens ==
    {<<>>, Json, Html, NoExcludeToken, <<"o">>, <<"t">>, <<"e">>}

parameterStrings ==
    {join(ts, ",") : ts \in UNION {[1..n -> parameterTokens] : n \in 1..MaxTokens}}

InitParse ==
    \E file \in lifecycleFiles(1) : Start(<<file>>)

NextParse == hostCalls /\ \E param \in parameterStrings : Generate(param)

SpecParse == InitParse /\ [][NextParse]_vars

\* The lines a scanned schema file is made of: a blank line, "/// a", "///b",
\* "/// @exclude", a line of the schema ("m"), a closed block comment
\* ("/** d */"), the start of a block comment ("/**"), a line inside one
\* ("* x") and the end of one ("*/").
scanLines ==
    {<<>>,
     <<"/", "/", "/", " ", "a">>,
     <<"/", "/", "/", "b">>,
     <<"/", "/", "/", " ">> \o ExcludeMarker,
     <<"m">>,
     <<"/", "*", "*", " ", "d", " ", "*", "/">>,
     <<"/", "*", "*">>,
     <<"*", " ", "x">>,
     <<"*", "/">>}

\* The file texts of at most k lines.
scanTexts(k) == UNION {[1..n -> scanLines] : n \in 0..k}

\* Runs of one file without declarations, over every text of at most MaxLines
\* lines.
InitScan ==
    \E lines \in scanTexts(MaxLines) : Start(<<emptyFile(filePath(1), TRUE, lines)>>)

NextScan == hostCalls /\ \E param \in buildParameters : Generate(param)

SpecScan == InitScan /\ [][NextScan]_vars

\* Runs of one file with one message "A" holding one field "a", over every
\* default of at most MaxChars characters or bytes.
InitDefault ==
    \E default \in fieldDefaults(MaxChars) :
        Start(<< [emptyFile(filePath(1), TRUE, PlainText) EXCEPT
                    !.messages = << [name |-> <<"A">>, containing_type |-> 0,
                                     location |-> NoComment] >>,
                    !.fields = << [name |-> <<"a">>, containing_type |-> 1,
                                   location |-> NoComment, default |-> default] >>] >>)

NextDefault == hostCalls /\ \E param \in buildParameters : Generate(param)

SpecDefault == InitDefault /\ [][NextDefault]_vars

\* The comments the compiler may attach to an element: none; a documentation
\* comment ("/// d" arrives as "/ d\n"); documentation comments that begin
\* with the marker, directly, after blanks, or as the start of a longer word;
\* an ordinary comment with the marker; a documentation comment with the
\* marker further in.
leadingComments ==
    {<<>>,
     <<"/", " ", "d", "\n">>,
     <<"/", " ">> \o ExcludeMarker \o <<" ", "d", "\n">>,
     <<"*", " ", " ">> \o ExcludeMarker \o <<"\n">>,
     <<"/", " ">> \o ExcludeMarker \o <<"d", "\n">>,
     <<" ">> \o ExcludeMarker \o <<"\n">>,
     <<"/", " ", "d", " ">> \o ExcludeMarker \o <<"\n">>}

trailingComments ==
    {<<>>, <<"/", " ", "t", "\n">>, <<"/", " ">> \o ExcludeMarker \o <<"\n">>}

ElementKinds ==
    {"messages", "enums", "values", "fields", "extensions", "services", "methods"}

\* A file with one commented element of a kind, and the uncommented element
\* that owns it where the kind needs one.
commentedFile(kind, location, lines) ==
    LET file == emptyFile(filePath(1), TRUE, lines)
        message(l) == [name |-> <<"A">>, containing_type |-> 0, location |-> l]
        enum(l) == [name |-> <<"B">>, containing_type |-> 0, location |-> l]
        service(l) == [name |-> <<"S">>, location |-> l]
    IN  CASE kind = "messages" -> [file EXCEPT !.messages = <<message(location)>>]
          [] kind = "enums" -> [file EXCEPT !.enums = <<enum(location)>>]
          [] kind = "values" ->
               [file EXCEPT !.enums = <<enum(NoComment)>>,
                            !.values = << [name |-> <<"V">>, type |-> 1,
                                           location |-> location] >>]
          [] kind = "fields" ->
               [file EXCEPT !.messages = <<message(NoComment)>>,
                            !.fields = << [name |-> <<"a">>, containing_type |-> 1,
                                           location |-> location,
                                           default |-> NoDefault] >>]
          [] kind = "extensions" ->
               [file EXCEPT !.messages = <<message(NoComment)>>,
                            !.extensions = << [name |-> <<"b">>, extension_scope |-> 1,
                                               containing_type |-> 1,
                                               location |-> location,
                                               default |-> NoDefault] >>]
          [] kind = "services" -> [file EXCEPT !.services = <<service(location)>>]
          [] kind = "methods" ->
               [file EXCEPT !.services = <<service(NoComment)>>,
                            !.methods = << [name |-> <<"M">>, service |-> 1,
                                            location |-> location] >>]

\* Runs of one file with one commented element, over the kinds of elements,
\* the comments and the file texts, with and without the override.
InitComment ==
    \E kind \in ElementKinds, leading \in leadingComments, trailing \in trailingComments,
       lines \in {PlainText, ExcludedText, DocumentedText} :
        Start(<<commentedFile(kind,
                              [leading_comments |-> leading,
                               trailing_comments |-> trailing],
                              lines)>>)

NextComment == hostCalls /\ \E param \in buildParameters : Generate(param)

SpecComment == InitComment /\ [][NextComment]_vars

----------------------------------------------------------------------------
(* Properties of the invocation lifecycle (specification Spec). *)

\* The number of files of the run.
N == Len(parsedFiles)

\* The errors render() reports: an invocation that ends with one of them got
\* as far as the render step.
renderErrors ==
    {"Failed to create JSON document", "scalar table cannot be opened",
     "template error"}

\* The file's leading comment carries the exclusion marker.
fileMarked(file) == descriptionOfFile(file, FALSE).excluded

\* The base names of the first k files of the run that are not excluded.
includedNames(k, noExclude) ==
    LET kept == SelectSeq(SubSeq(parsedFiles, 1, k),
                          LAMBDA f : noExclude \/ ~fileMarked(f))
    IN  [i \in 1..Len(kept) |-> fileName(kept[i].name)]

recordNames(files) == [i \in 1..Len(files) |-> files[i].file_name]

\* C1, as stated: once all N invocations have returned, render has been
\* invoked exactly once, during the N-th invocation, and never in an earlier
\* one.
C1_RenderExactlyOnce ==
    /\ \A i \in 1..Len(renders) : renders[i].call = N
    /\ Len(returned) = N => Len(renders) = 1

\* C1, amended: render is invoked at most once in a run and never before the
\* N-th invocation; once the N-th invocation has returned, render has been
\* invoked exactly once if that invocation got past the parsing of the
\* parameter and the build of its file without an error, and not at all
\* otherwise.
C1_RenderOnLastOnly ==
    /\ Len(renders) <= 1
    /\ \A i \in 1..Len(renders) : renders[i].call = N
    /\ Len(returned) = N =>
          (Len(renders) = 1 <=> (returned[N] \/ error \in renderErrors))

\* A run of three files whose first and last files are excluded has rendered
\* once, in the third invocation, with the record of the second file.
C1_Witness ==
    /\ N = 3
    /\ fileMarked(parsedFiles[1]) /\ fileMarked(parsedFiles[3])
    /\ Len(returned) = 3
    /\ Len(renders) = 1
    /\ renders[1].call = 3
    /\ Len(renders[1].files) = 1

\* C2: the output artifact is written at most once and only by an invocation
\* that returns success; once an invocation has returned failure, no output
\* has been written in the run.
C2_AllOrNothingOutput ==
    /\ Len(outputs) <= 1
    /\ \A i \in 1..Len(outputs) :
          /\ outputs[i].call <= Len(returned)
          /\ returned[outputs[i].call]
    /\ (\E i \in 1..Len(returned) : ~returned[i]) => outputs = <<>>

\* The third invocation of a run fails in the template engine after two
\* successful invocations, and nothing has been written.
C2_Witness ==
    /\ Len(returned) = 3
    /\ returned[1] /\ returned[2] /\ ~returned[3]
    /\ error = "template error"
    /\ Len(renders) = 1
    /\ outputs = <<>>

\* C3: whenever render is invoked, the accumulated list holds exactly one
\* record for each file invoked so far that is not excluded, in invocation
\* order; and every invocation that returns success on a file that is not
\* excluded appends one record for it and leaves the earlier records as they
\* were (on an excluded file it leaves the list as it was).
C3_FilesAtRender ==
    /\ [](\A i \in 1..Len(renders) :
             recordNames(renders[i].files)
                 = includedNames(renders[i].call, generatorContext.noExclude))
    /\ [][(Len(returned') = Len(returned) + 1 /\ returned'[Len(returned')]) =>
             LET before == generatorContext.files
                 after == generatorContext'.files
                 file == parsedFiles[calls']
             IN  IF generatorContext'.noExclude \/ ~fileMarked(file)
                 THEN /\ Len(after) = Len(before) + 1
                      /\ SubSeq(after, 1, Len(before)) = before
                      /\ after[Len(after)].file_name = fileName(file.name)
                 ELSE after = before]_vars

\* Render is invoked in the third invocation of a run whose second file is
\* excluded: it sees the records of the first and the third file.
C3_Witness ==
    /\ N = 3
    /\ ~fileMarked(parsedFiles[1]) /\ fileMarked(parsedFiles[2])
    /\ ~fileMarked(parsedFiles[3])
    /\ ~generatorContext.noExclude
    /\ Len(renders) = 1
    /\ recordNames(renders[1].files) = <<fileName(filePath(1)), fileName(filePath(3))>>

----------------------------------------------------------------------------
(* Properties of the parameter parsing (specifications SpecParse and Spec). *)

\* The positions of the commas of a string, and its k-th comma-separated
\* token: the characters between the (k-1)-th and the k-th comma.
commas(str) == {i \in 1..Len(str) : str[i] = ","}

tokenCount(str) == Cardinality(commas(str)) + 1

token(str, k) ==
    LET before == {i \in commas(str) : Cardinality({j \in commas(str) : j < i}) = k - 2}
        after == {i \in commas(str) : Cardinality({j \in commas(str) : j < i}) = k - 1}
        from == IF before = {} THEN 1 ELSE (CHOOSE i \in before : TRUE) + 1
        to == IF after = {} THEN Len(str) ELSE (CHOOSE i \in after : TRUE) - 1
    IN  SubSeq(str, from, to)

\* The strings the configuration grammar admits.
wellFormed(str) ==
    \/ tokenCount(str) = 2
    \/ tokenCount(str) = 3 /\ token(str, 3) = NoExcludeToken

\* C9: after the first invocation, the parameter string was accepted (the
\* file build was entered) exactly if it has 2 tokens, or 3 tokens the third
\* of which is "no-exclude"; an accepted string leaves the output file name
\* equal to token 2, the override flag set exactly for 3 tokens, and the
\* template read from the selector token 1 (none for "json"); every other
\* string is rejected with the usage error.
C9_ParameterParsing ==
    calls = 1 =>
        IF wellFormed(parameter)
        THEN /\ builds = <<1>>
             /\ error # "usage"
             /\ generatorContext.outputFileName = token(parameter, 2)
             /\ generatorContext.noExclude = (tokenCount(parameter) = 3)
             /\ generatorContext.template_ =
                    (IF token(parameter, 1) = Json THEN <<>>
                     ELSE readTemplate(token(parameter, 1)).template)
        ELSE /\ builds = <<>>
             /\ returned = <<FALSE>>
             /\ error = "usage"

\* "html,o,no-exclude" was accepted with the override flag set.
C9_Witness ==
    /\ calls = 1
    /\ parameter = join(<<Html, <<"o">>, NoExcludeToken>>, ",")
    /\ builds = <<1>>
    /\ generatorContext.noExclude
    /\ generatorContext.outputFileName = <<"o">>
    /\ generatorContext.template_ = readTemplate(Html).template

\* C10: a malformed parameter string on the first invocation makes it return
\* failure with the error set, before any file is built: the file list is
\* empty, the stored configuration is as it was before the run, render is not
\* invoked and nothing is written.
C10_MalformedParameterIsFatal ==
    (calls = 1 /\ ~wellFormed(parameter)) =>
        /\ returned = <<FALSE>>
        /\ error # ""
        /\ builds = <<>>
        /\ generatorContext = emptyContext
        /\ renders = <<>>
        /\ outputs = <<>>

\* The first invocation of a run of several files was given "json,o,x".
C10_Witness ==
    /\ N >= 2
    /\ calls = 1
    /\ parameter = join(<<Json, <<"o">>, <<"x">>>>, ",")
    /\ returned = <<FALSE>>
    /\ error = "usage"
    /\ generatorContext.files = <<>>

----------------------------------------------------------------------------
(* Properties of the document model (specification SpecBuild: runs of one   *)
(* file).                                                                   *)

\* The file of the run, and whether its build has been made.
theFile == parsedFiles[1]
built == calls = 1 /\ builds = <<1>>

\* The element's description begins with the exclusion marker.
marked(element) ==
    startsWith(trimmed(documentationComment(element.location.leading_comments)
                       \o documentationComment(element.location.trailing_comments)),
               ExcludeMarker)

\* The names of the messages enclosing message m, outermost first, then its
\* own name (none for m = 0), and the same joined by dots.
RECURSIVE enclosing(_)
enclosing(m) ==
    IF m = 0 THEN <<>>
    ELSE Append(enclosing(theFile.messages[m].containing_type), theFile.messages[m].name)

dotted(m, name) == join(Append(enclosing(m), name), ".")

\* Message m, or a message enclosing it, is marked.
RECURSIVE hidden(_)
hidden(m) ==
    IF m = 0 THEN FALSE
    ELSE marked(theFile.messages[m]) \/ hidden(theFile.messages[m].containing_type)

range(list) == {list[i] : i \in 1..Len(list)}

\* The records of the run's file lists, over all file records.
messageRecords == UNION {range(f.file_messages) : f \in range(generatorContext.files)}
enumRecords == UNION {range(f.file_enums) : f \in range(generatorContext.files)}
serviceRecords == UNION {range(f.file_services) : f \in range(generatorContext.files)}
fileExtensionRecords == UNION {range(f.file_extensions) : f \in range(generatorContext.files)}

\* C4: with the override not set, no marked element has a record: a marked
\* file has no file record; a marked message, and every message and enum
\* nested at any depth in a marked message, has no record in the file's lists;
\* a marked enum, enum value, field, extension, service or method has no
\* record in the list it would be in.
C4_MarkedElementsAbsent ==
    (built /\ ~generatorContext.noExclude) =>
        /\ fileMarked(theFile) => generatorContext.files = <<>>
        /\ \A m \in 1..Len(theFile.messages) :
              hidden(m) =>
                  \A r \in messageRecords :
                      r.message_long_name # dotted(theFile.messages[m].containing_type,
                                                   theFile.messages[m].name)
        /\ \A e \in range(theFile.enums) :
              (marked(e) \/ hidden(e.containing_type)) =>
                  \A r \in enumRecords :
                      r.enum_long_name # dotted(e.containing_type, e.name)
        /\ \A v \in range(theFile.values) :
              marked(v) =>
                  \A r \in enumRecords :
                      r.enum_long_name = dotted(theFile.enums[v.type].containing_type,
                                                theFile.enums[v.type].name)
                      => \A x \in range(r.enum_values) : x.value_name # v.name
        /\ \A f \in range(theFile.fields) :
              marked(f) =>
                  \A r \in messageRecords :
                      r.message_long_name
                          = dotted(theFile.messages[f.containing_type].containing_type,
                                   theFile.messages[f.containing_type].name)
                      => \A x \in range(r.message_fields) : x.field_name # f.name
        /\ \A x \in range(theFile.extensions) :
              marked(x) =>
                  /\ x.extension_scope = 0 =>
                        \A r \in fileExtensionRecords : r.extension_name # x.name
                  /\ x.extension_scope # 0 =>
                        \A r \in messageRecords :
                            r.message_long_name
                                = dotted(theFile.messages[x.extension_scope].containing_type,
                                         theFile.messages[x.extension_scope].name)
                            => \A y \in range(r.message_extensions) :
                                   y.extension_name # x.name
        /\ \A sv \in range(theFile.services) :
              marked(sv) => \A r \in serviceRecords : r.service_name # sv.name
        /\ \A mt \in range(theFile.methods) :
              marked(mt) =>
                  \A r \in serviceRecords :
                      r.service_name = theFile.services[mt.service].name
                      => \A x \in range(r.service_methods) : x.method_name # mt.name

\* A marked message with an unmarked nested message and an unmarked nested
\* enum was built with the override not set: the file has a record, with no
\* message and no enum in it.
C4_Witness ==
    /\ built /\ ~generatorContext.noExclude
    /\ Len(theFile.messages) = 2 /\ Len(theFile.enums) = 1
    /\ marked(theFile.messages[1]) /\ ~marked(theFile.messages[2])
    /\ theFile.messages[2].containing_type = 1
    /\ theFile.enums[1].containing_type = 1 /\ ~marked(theFile.enums[1])
    /\ Len(generatorContext.files) = 1
    /\ generatorContext.files[1].file_messages = <<>>
    /\ generatorContext.files[1].file_enums = <<>>

\* The list is in ascending order of the strings under key.
ascending(list, key) ==
    \A i, j \in 1..Len(list) : i < j => ~QStringLess(list[j][key], list[i][key])

\* C5: in every file record the services are in ascending order of their
\* names.
C5_ServicesSorted ==
    \A f \in range(generatorContext.files) : ascending(f.file_services, "service_name")

\* C6: in every file record the messages, the enums and the extensions are in
\* ascending order of their long names.
C6_ListsSortedByLongName ==
    \A f \in range(generatorContext.files) :
        /\ ascending(f.file_messages, "message_long_name")
        /\ ascending(f.file_enums, "enum_long_name")
        /\ ascending(f.file_extensions, "extension_long_name")

\* An enum A nested in message B is declared before a file-level enum A: the
\* enum list comes out in long-name order, A before B.A.
C6_Witness ==
    /\ built
    /\ Len(theFile.messages) = 1 /\ Len(theFile.enums) = 2
    /\ theFile.messages[1].name = <<"B">>
    /\ theFile.enums[1].containing_type = 1 /\ theFile.enums[1].name = <<"A">>
    /\ theFile.enums[2].containing_type = 0 /\ theFile.enums[2].name = <<"A">>
    /\ Len(generatorContext.files) = 1
    /\ [i \in 1..2 |-> generatorContext.files[1].file_enums[i].enum_long_name]
           = << <<"A">>, <<"B", ".", "A">> >>

\* C7, as stated: every message, enum and extension record carries as long
\* name the names of the enclosing messages of an element of its kind and
\* name, outermost first, then its own name, joined by single dots; for a
\* file-level element that is its bare name.
C7_LongNameIsDottedPath ==
    /\ \A r \in messageRecords :
          \E m \in range(theFile.messages) :
              /\ m.name = r.message_name
              /\ r.message_long_name = dotted(m.containing_type, m.name)
    /\ \A r \in enumRecords :
          \E e \in range(theFile.enums) :
              /\ e.name = r.enum_name
              /\ r.enum_long_name = dotted(e.containing_type, e.name)
    /\ \A r \in fileExtensionRecords :
          \E x \in range(theFile.extensions) :
              /\ x.extension_scope = 0 /\ x.name = r.extension_name
              /\ r.extension_long_name = dotted(0, x.name)
    /\ \A r \in messageRecords :
          \A y \in range(r.message_extensions) :
              \E x \in range(theFile.extensions) :
                  /\ x.extension_scope # 0 /\ x.name = y.extension_name
                  /\ y.extension_long_name = dotted(x.extension_scope, x.name)

\* C8: an extension declared inside message A that extends another message B
\* has, in A's record, a long name qualified under A's long name, B's long
\* name as extension_containing_long_type and A's long name as
\* extension_scope_long_type.
C8_ExtensionNamedByScope ==
    built =>
        \A x \in range(theFile.extensions) :
            (x.extension_scope # 0 /\ x.containing_type # x.extension_scope) =>
                LET A == theFile.messages[x.extension_scope]
                    B == theFile.messages[x.containing_type]
                    longA == dotted(A.containing_type, A.name)
                    longB == dotted(B.containing_type, B.name)
                    present == generatorContext.noExclude
                               \/ (~fileMarked(theFile) /\ ~hidden(x.extension_scope)
                                   /\ ~marked(x))
                    found == {y \in UNION {range(r.message_extensions) :
                                  r \in {q \in messageRecords : q.message_long_name = longA}} :
                                  y.extension_name = x.name}
                IN  /\ present => found # {}
                    /\ \A y \in found :
                          /\ y.extension_long_name = longA \o <<".">> \o x.name
                          /\ y.extension_long_name # longB \o <<".">> \o x.name
                          /\ y.extension_containing_long_type = longB
                          /\ y.extension_scope_long_type = longA

\* Extension B is declared inside message A and extends message B: A's record
\* lists it as A.B, extending B, in scope A.
C8_Witness ==
    /\ built
    /\ Len(theFile.messages) = 2 /\ Len(theFile.extensions) = 1
    /\ theFile.messages[1].name = <<"A">> /\ theFile.messages[1].containing_type = 0
    /\ theFile.messages[2].name = <<"B">> /\ theFile.messages[2].containing_type = 0
    /\ theFile.extensions[1].extension_scope = 1
    /\ theFile.extensions[1].containing_type = 2
    /\ theFile.extensions[1].name = <<"B">>
    /\ Len(generatorContext.files) = 1
    /\ Len(generatorContext.files[1].file_messages) = 2
    /\ generatorContext.files[1].file_messages[1].message_extensions
         = << [extension_name |-> <<"B">>,
               extension_long_name |-> <<"A", ".", "B">>,
               extension_description |-> <<>>,
               extension_default_value |-> <<>>,
               extension_scope_type |-> <<"A">>,
               extension_scope_long_type |-> <<"A">>,
               extension_containing_type |-> <<"B">>,
               extension_containing_long_type |-> <<"B">>] >>

----------------------------------------------------------------------------
(* Properties of the whole-file comment scan (specification SpecScan). *)

LineCommentPrefix == <<"/", "/", "/">>
BlockCommentPrefix == <<"/", "*", "*">>

\* The position of the first non-blank line of a text at or after position i,
\* Len(lines) + 1 if there is none.
RECURSIVE firstNonBlank(_, _)
firstNonBlank(lines, i) ==
    IF i > Len(lines) THEN i
    ELSE IF trimmed(lines[i]) = <<>> THEN firstNonBlank(lines, i + 1)
    ELSE i

\* The position after the run of consecutive "///" lines that starts at i.
RECURSIVE runEnd(_, _)
runEnd(lines, i) ==
    IF i <= Len(lines) /\ startsWith(trimmed(lines[i]), LineCommentPrefix)
    THEN runEnd(lines, i + 1)
    ELSE i

\* The text of a "///" line: the line without "/// ", or without "///".
commentText(line) ==
    IF startsWith(line, LineCommentPrefix \o <<" ">>) THEN mid(line, 4) ELSE mid(line, 3)

\* The texts of the lines from..(to - 1), joined by newlines.
runText(lines, from, to) ==
    join([i \in 1..(to - from) |-> commentText(trimmed(lines[from + i - 1]))], "\n")

\* A description as the file record shows it: trimmed, the marker removed.
shown(description) ==
    LET t == trimmed(description) IN
    IF startsWith(t, ExcludeMarker) THEN mid(t, 8) ELSE t

\* C11: the description of a file whose first non-blank lines are a run of
\* k >= 1 "///" lines is the text of all k lines joined by newlines, whatever
\* follows the run (the end of the file included); it is empty when the first
\* non-blank line is no documentation comment.  Stated on the record of the
\* file, for the files that get one.
C11_LineCommentDescription ==
    (calls = 1 /\ ~hung /\ Len(generatorContext.files) = 1) =>
        LET lines == parsedFiles[1].lines
            first == firstNonBlank(lines, 1)
            description == generatorContext.files[1].file_description
        IN  /\ (first <= Len(lines)
                /\ startsWith(trimmed(lines[first]), LineCommentPrefix))
               => description = shown(runText(lines, first, runEnd(lines, first)))
            /\ (first > Len(lines)
                \/ (/\ ~startsWith(trimmed(lines[first]), LineCommentPrefix)
                    /\ ~startsWith(trimmed(lines[first]), BlockCommentPrefix)))
               => description = <<>>

\* C17: the whole-file comment scan terminates for every file text: no
\* invocation is left hanging in it.
C17_ScanTerminates == ~hung

----------------------------------------------------------------------------
(* Properties of a failed file build (specification Spec). *)

\* The step is an invocation that got to build a file that cannot be opened.
buildsUnreadable ==
    /\ calls' = calls + 1
    /\ builds' = Append(builds, calls + 1)
    /\ ~parsedFiles[calls + 1].readable

\* C18: an invocation whose file build fails because the schema file cannot
\* be opened returns failure and leaves the accumulated file list as it was:
\* no record is appended for the failing file.
C18_FailedBuildAppendsNothing ==
    [][buildsUnreadable =>
          /\ returned' = Append(returned, FALSE)
          /\ generatorContext'.files = generatorContext.files]_vars

----------------------------------------------------------------------------
(* Properties of the default-value rendering (specification SpecDefault). *)

\* The number a string of decimal digits denotes.
RECURSIVE numeral(_)
numeral(s) ==
    IF s = <<>> THEN 0
    ELSE 10 * numeral(SubSeq(s, 1, Len(s) - 1))
         + (CHOOSE d \in 0..9 : digitsOf(d) = <<s[Len(s)]>>)

\* The whole number a rendering denotes: "-12", "123456", "1.23457e+06".
denoted(str) ==
    LET body == IF startsWith(str, <<"-">>) THEN Tail(str) ELSE str
        at == indexOf(body, <<"e">>)
        mantissa == IF at = -1 THEN body ELSE left(body, at)
        exponent == IF at = -1 THEN 0 ELSE numeral(mid(body, at + 2))
        dot == indexOf(mantissa, <<".">>)
        fraction == IF dot = -1 THEN 0 ELSE Len(mantissa) - dot - 1
        whole == numeral(SelectSeq(mantissa, LAMBDA c : c # "."))
        n == whole * 10 ^ (exponent - fraction)
    IN  IF startsWith(str, <<"-">>) THEN -n ELSE n

\* The field records of the built file.
fieldRecords ==
    UNION {range(m.message_fields) :
              m \in UNION {range(f.file_messages) : f \in range(generatorContext.files)}}

\* C12: default-value rendering never fails and follows the declared type of
\* the field: empty without a default, the value in double quotes for a
\* string, "0x" and the hex encoding of the value for a byte string, "true" or
\* "false" for a boolean, the number for a numeric type, the name of the
\* constant for an enum, "Unknown" for anything else.
C12_DefaultValueRendering ==
    (calls = 1 /\ builds = <<1>>) =>
        LET default == parsedFiles[1].fields[1].default
            numeric == {"CPPTYPE_FLOAT", "CPPTYPE_DOUBLE", "CPPTYPE_INT32",
                        "CPPTYPE_INT64", "CPPTYPE_UINT32", "CPPTYPE_UINT64"}
        IN  /\ Cardinality(fieldRecords) = 1
            /\ \A field \in fieldRecords :
               LET rendered == field.field_default_value IN
               IF ~default.has_default_value THEN rendered = <<>>
               ELSE CASE default.type = "TYPE_STRING" ->
                           rendered = <<"\"">> \o default.value \o <<"\"">>
                      [] default.type = "TYPE_BYTES" ->
                           rendered = <<"0", "x">> \o toHex(default.value)
                      [] default.cpp_type = "CPPTYPE_BOOL" ->
                           rendered = (IF default.value THEN <<"t", "r", "u", "e">>
                                       ELSE <<"f", "a", "l", "s", "e">>)
                      [] default.cpp_type \in numeric ->
                           denoted(rendered) = default.value
                      [] default.cpp_type = "CPPTYPE_ENUM" ->
                           rendered = default.value
                      [] OTHER -> rendered = <<"U", "n", "k", "n", "o", "w", "n">>

----------------------------------------------------------------------------
(* Properties of the stored configuration (specification Spec). *)

\* The stored configuration: template, output file name, override flag.
configuration(context) ==
    <<context.template_, context.outputFileName, context.noExclude>>

\* C13: the configuration is parsed once, by the first invocation, and frozen
\* afterwards: an invocation after the first leaves the stored template,
\* output file name and override flag as they are, whatever string it is
\* passed; the first invocation stores what its own string says, and the
\* override flag it stores already decides whether the first file, when it
\* carries the marker, is excluded.
C13_ConfigurationFrozen ==
    [][/\ calls >= 1 =>
              configuration(generatorContext') = configuration(generatorContext)
       /\ (calls = 0 /\ calls' = 1 /\ wellFormed(parameter')) =>
              /\ generatorContext'.outputFileName = token(parameter', 2)
              /\ generatorContext'.noExclude = (tokenCount(parameter') = 3)
              /\ generatorContext'.template_ =
                     (IF token(parameter', 1) = Json THEN <<>>
                      ELSE readTemplate(token(parameter', 1)).template)
              /\ (~hung' /\ fileMarked(parsedFiles[1])) =>
                     (Len(generatorContext'.files) = 1) = generatorContext'.noExclude
      ]_vars

\* Two invocations succeeded, the first under "html,p,no-exclude" on a file
\* that carries the marker, the second under "json,o": the configuration is
\* still that of the first, and the marked first file has its record.
C13_Witness ==
    /\ calls = 2
    /\ returned = <<TRUE, TRUE>>
    /\ parameter = join(<<Json, <<"o">>>>, ",")
    /\ fileMarked(parsedFiles[1])
    /\ Len(generatorContext.files) = 2
    /\ configuration(generatorContext)
           = <<readTemplate(Html).template, <<"p">>, TRUE>>

----------------------------------------------------------------------------
(* Properties of the exclusion check (specification SpecComment). *)

\* The kind of the commented element of the file, and the element.
commentedKind ==
    LET file == parsedFiles[1] IN
    CASE file.methods # <<>> -> "methods"
      [] file.values # <<>> -> "values"
      [] file.extensions # <<>> -> "extensions"
      [] file.fields # <<>> -> "fields"
      [] file.services # <<>> -> "services"
      [] file.enums # <<>> -> "enums"
      [] OTHER -> "messages"

commented == parsedFiles[1][commentedKind][1]

\* The descriptions of the records of the commented kind in a file record.
recordDescriptions(file) ==
    LET of(list, key) == [i \in 1..Len(list) |-> list[i][key]] IN
    CASE commentedKind = "messages" -> of(file.file_messages, "message_description")
      [] commentedKind = "enums" -> of(file.file_enums, "enum_description")
      [] commentedKind = "values" -> of(file.file_enums[1].enum_values, "value_description")
      [] commentedKind = "fields" -> of(file.file_messages[1].message_fields, "field_description")
      [] commentedKind = "extensions" ->
           of(file.file_messages[1].message_extensions, "extension_description")
      [] commentedKind = "services" -> of(file.file_services, "service_description")
      [] commentedKind = "methods" ->
           of(file.file_services[1].service_methods, "method_description")

\* The trimmed description of an element, before the exclusion check.
trimmedDescription(element) ==
    trimmed(documentationComment(element.location.leading_comments)
            \o documentationComment(element.location.trailing_comments))

\* The description and the verdict the exclusion check is to give.
checked(description, noExclude) ==
    IF startsWith(description, ExcludeMarker)
    THEN [description |-> SubSeq(description, Len(ExcludeMarker) + 1, Len(description)),
          excluded |-> ~noExclude]
    ELSE [description |-> description, excluded |-> FALSE]

\* C14: the exclusion check of a file or an element: a trimmed description
\* that begins with the marker loses the marker, with or without the
\* override, and the element is excluded exactly when the override is not
\* set; any other description is kept and the element is not excluded.  With
\* the override every file and element has its record.
C14_ExclusionCheck ==
    (calls = 1 /\ builds = <<1>>) =>
        LET noExclude == generatorContext.noExclude
            ofFile == checked(trimmed(scanFileComment(parsedFiles[1].lines, 0).description),
                              noExclude)
            ofElement == checked(trimmedDescription(commented), noExclude)
            files == generatorContext.files
        IN  /\ noExclude = (tokenCount(parameter) = 3)
            /\ Len(files) = (IF ofFile.excluded THEN 0 ELSE 1)
            /\ \A i \in 1..Len(files) :
                 /\ files[i].file_description = ofFile.description
                 /\ recordDescriptions(files[i]) =
                        (IF ofElement.excluded THEN <<>> ELSE <<ofElement.description>>)

\* A field whose comment begins with the marker was built under the override
\* in a file that carries the marker too: both have their records, without
\* the marker.
C14_Witness ==
    /\ calls = 1 /\ builds = <<1>>
    /\ generatorContext.noExclude
    /\ commentedKind = "fields"
    /\ startsWith(trimmedDescription(commented), ExcludeMarker)
    /\ parsedFiles[1].lines = ExcludedText
    /\ Len(generatorContext.files) = 1
    /\ generatorContext.files[1].file_description = <<>>
    /\ recordDescriptions(generatorContext.files[1]) = << <<" ", "d">> >>

----------------------------------------------------------------------------
(* Properties of the flattened lists (specification SpecBuild). *)

\* The positions of the messages and enums that are to appear: not marked and
\* in no marked message, or anything under the override.
shownMessages ==
    {m \in 1..Len(theFile.messages) : generatorContext.noExclude \/ ~hidden(m)}

shownEnums ==
    {e \in 1..Len(theFile.enums) :
        \/ generatorContext.noExclude
        \/ ~marked(theFile.enums[e]) /\ ~hidden(theFile.enums[e].containing_type)}

\* The positions of a list at which the entry under key is value.
occurrences(list, key, value) == {i \in 1..Len(list) : list[i][key] = value}

MessageRecordKeys ==
    {"message_name", "message_long_name", "message_description", "message_fields",
     "message_has_fields", "message_has_extensions", "message_extensions"}

\* C15: in the record of a file, every message that is to appear, at any
\* depth, is exactly once in the one flat message list, every enum that is to
\* appear, declared in the file or in such a message, exactly once in the
\* file's enum list; the lists hold nothing else and a message record holds
\* no message or enum records.
C15_Flattening ==
    (built /\ Len(generatorContext.files) = 1) =>
        LET file == generatorContext.files[1] IN
        /\ \A m \in shownMessages :
              Cardinality(occurrences(file.file_messages, "message_long_name",
                  dotted(theFile.messages[m].containing_type, theFile.messages[m].name)))
              = 1
        /\ Len(file.file_messages) = Cardinality(shownMessages)
        /\ \A e \in shownEnums :
              Cardinality(occurrences(file.file_enums, "enum_long_name",
                  dotted(theFile.enums[e].containing_type, theFile.enums[e].name)))
              = 1
        /\ Len(file.file_enums) = Cardinality(shownEnums)
        /\ \A i \in 1..Len(file.file_messages) :
              DOMAIN file.file_messages[i] = MessageRecordKeys

\* A file with message A, message A.B nested in it and enum A.B.A nested in
\* that was built: two records in the message list, one in the enum list.
C15_Witness ==
    /\ built /\ Len(generatorContext.files) = 1
    /\ Len(theFile.messages) = 2 /\ theFile.messages[2].containing_type = 1
    /\ Len(theFile.enums) = 1 /\ theFile.enums[1].containing_type = 2
    /\ Len(generatorContext.files[1].file_messages) = 2
    /\ Len(generatorContext.files[1].file_enums) = 1
    /\ Len(generatorContext.files[1].file_enums[1].enum_long_name) = 5

\* The names under key of the elements of list owned (under ownerKey) by
\* owner that are to appear, in declaration order.
shownNames(list, ownerKey, owner) ==
    LET kept == SelectSeq(list, LAMBDA x :
                    /\ x[ownerKey] = owner
                    /\ (generatorContext.noExclude \/ ~marked(x)))
    IN  [i \in 1..Len(kept) |-> kept[i].name]

\* C16: in every message record, message_fields and message_extensions hold
\* the fields and extensions of the message that are to appear in declaration
\* order; they are not sorted by name, also after the lists of the file were.
C16_DeclarationOrder ==
    (built /\ Len(generatorContext.files) = 1) =>
        \A m \in shownMessages :
        \A r \in range(generatorContext.files[1].file_messages) :
            r.message_long_name
                = dotted(theFile.messages[m].containing_type, theFile.messages[m].name)
            => /\ [i \in 1..Len(r.message_fields) |-> r.message_fields[i].field_name]
                  = shownNames(theFile.fields, "containing_type", m)
               /\ [i \in 1..Len(r.message_extensions) |->
                      r.message_extensions[i].extension_name]
                  = shownNames(theFile.extensions, "extension_scope", m)

\* A message declaring field B before field A was built: its record lists B
\* before A.
C16_Witness ==
    /\ built /\ Len(generatorContext.files) = 1
    /\ Len(generatorContext.files[1].file_messages) = 1
    /\ LET fields == generatorContext.files[1].file_messages[1].message_fields IN
       /\ Len(fields) = 2
       /\ fields[1].field_name = <<"B">>
       /\ fields[2].field_name = <<"A">>

====
